---------------------------- MODULE Spec2Model ----------------------------
(***************************************************************************)
(* Run-execution pipeline of backend/app/api/runs.py: thread and assistant *)
(* lookup, config merge, input validation, code-interpreter bootstrap and  *)
(* the two execution modes (background task, server-sent-event stream),    *)
(* the feedback route, and the process-wide handles of backend/app/        *)
(* lifespan.py.                                                            *)
(*                                                                         *)
(* Python values: a dict is a function from its keys, a list a sequence,   *)
(* None the record  None  below.  The run input carries its Python type    *)
(* next to its items, because an empty dict and an empty list are the same *)
(* function in TLA+ and the code can produce both.                         *)
(***************************************************************************)
EXTENDS Naturals, Sequences, FiniteSets, TLC

(* ---------------------------- bounds ---------------------------------- *)

NumReqs == 2            \* concurrent in-flight requests
MaxSnapshots == 2       \* snapshots an agent yields before it ends
MaxFailures == 1        \* sandbox startups that fail

Reqs == 1..NumReqs

(* ------------------------- Python values ------------------------------ *)

None == [type |-> "NoneType"]
EmptyDict == [k \in {} |-> None]

PyDict(items) == [type |-> "dict", items |-> items]
PyList(items) == [type |-> "list", items |-> items]

\* truthiness of a dict-or-None value
Falsy(x) == x = None \/ DOMAIN x = {}

\* x or y
Or(x, y) == IF Falsy(x) THEN y ELSE x

\* d.get(k)
Get(d, k) == IF k \in DOMAIN d THEN d[k] ELSE None

\* {**a, **b}: the keys of both, b's value where both define a key
Merge(a, b) ==
    [k \in (DOMAIN a) \cup (DOMAIN b) |-> IF k \in DOMAIN b THEN b[k] ELSE a[k]]

\* {k: v}
Single(k, v) == [x \in {k} |-> v]

\* str(x) of an id: the ids of this model are already strings (the uuid
\* codec of lifespan.py decodes a uuid column to its text), and str of a
\* str is that str.
Str(x) == x

(* --------------------------- vocabulary ------------------------------- *)

ToolsKey == "type==agent/tools"
CODE_INTERPRETER == "code_interpreter"
RETRIEVAL == "retrieval"

CI == [type |-> CODE_INTERPRETER]
RT == [type |-> RETRIEVAL]

IdentityKeys == {"user_id", "thread_id", "assistant_id"}


(* ----------------------------- storage -------------------------------- *)

\* The rows of the thread table.  t3 names an assistant that is not stored,
\* t4 belongs to another user, t5's assistant selects no tool list at all,
\* t6 names an assistant of another user, t7's assistant has an empty tool
\* list.
StoredThreads ==
    { [thread_id |-> "t1", user_id |-> "u1", assistant_id |-> "a1"],
      [thread_id |-> "t2", user_id |-> "u1", assistant_id |-> "a2"],
      [thread_id |-> "t3", user_id |-> "u1", assistant_id |-> "a3"],
      [thread_id |-> "t4", user_id |-> "u2", assistant_id |-> "a5"],
      [thread_id |-> "t5", user_id |-> "u1", assistant_id |-> "a4"],
      [thread_id |-> "t6", user_id |-> "u1", assistant_id |-> "a5"],
      [thread_id |-> "t7", user_id |-> "u1", assistant_id |-> "a6"] }

\* The rows of the assistant table.  a1 selects the code interpreter twice;
\* a2 selects no code interpreter and its template carries identity keys;
\* a4 has no tool list; a5 is another user's and selects it once; a6 has an
\* empty tool list.
StoredAssistants ==
    { [assistant_id |-> "a1", user_id |-> "u1",
       config |-> [tags |-> "tmpl",
                   configurable |-> (ToolsKey :> <<CI, RT, CI>>
                                     @@ "system_message" :> "sys")]],
      [assistant_id |-> "a2", user_id |-> "u1",
       config |-> [tags |-> "tmpl",
                   configurable |-> (ToolsKey :> <<RT>>
                                     @@ "user_id" :> "u0"
                                     @@ "thread_id" :> "t0"
                                     @@ "assistant_id" :> "a0")]],
      [assistant_id |-> "a4", user_id |-> "u1",
       config |-> [configurable |-> ("system_message" :> "sys")]],
      [assistant_id |-> "a5", user_id |-> "u2",
       config |-> [tags |-> "tmpl",
                   configurable |-> (ToolsKey :> <<CI>>)]],
      [assistant_id |-> "a6", user_id |-> "u1",
       config |-> [configurable |-> (ToolsKey :> <<>>)]] }

(* ----------------------------- requests ------------------------------- *)

Users == {"u1", "u2"}
ThreadIds == {"t1", "t2", "t3", "t4", "t5", "t6", "t7", "t9"}
Modes == {"background", "stream"}

\* The request inputs: null, the field's default (default_factory=dict),
\* and a list of one message.
Inputs == { None, PyDict(<<>>), PyList(<<"hello">>) }

\* the dicts that define key k with one of vals, or do not define it
Opt(k, vals) == {EmptyDict} \cup { Single(k, v) : v \in vals }

\* The "configurable" mappings a request may send: any subset of the
\* identity keys (with foreign values), a tool list, a system message.
OverrideConfigurables ==
    { Merge(Merge(Merge(Merge(d1, d2), d3), d4), d5) :
        d1 \in Opt("user_id", {"u2"}),
        d2 \in Opt("thread_id", {"t4"}),
        d3 \in Opt("assistant_id", {"a5"}),
        d4 \in Opt(ToolsKey, {<<>>, <<CI>>}),
        d5 \in Opt("system_message", {"req"}) }

\* The request config overrides: null, or a RunnableConfig with or without
\* an outer key and with or without "configurable" (which may be null).
Overrides ==
    {None}
    \cup { Merge(o, c) :
             o \in Opt("tags", {"req"}),
             c \in Opt("configurable", OverrideConfigurables \cup {None}) }

\* a request: the endpoint, the authenticated caller, the CreateRunPayload
Requests ==
    { [mode |-> m, user_id |-> u,
       payload |-> [thread_id |-> t, input |-> i, config |-> c]] :
        m \in Modes, u \in Users, t \in ThreadIds, i \in Inputs, c \in Overrides }

\* The requests of the specification of concurrent runs: one caller, a
\* thread of each kind of assistant (t1, t2), a thread without assistant
\* and an unknown thread, a message list, no override.
RaceRequests ==
    { q \in Requests :
        /\ q.user_id = "u1"
        /\ q.payload.thread_id \in {"t1", "t2", "t3", "t9"}
        /\ q.payload.input = PyList(<<"hello">>)
        /\ q.payload.config = None }

\* The requests of the specification of runs that share an assistant: one
\* caller, one thread, background mode, a message list, and no override or
\* one of two overrides with different keys.
OverrideRequests ==
    { q \in Requests :
        /\ q.mode = "background"
        /\ q.user_id = "u1"
        /\ q.payload.thread_id = "t1"
        /\ q.payload.input = PyList(<<"hello">>)
        /\ q.payload.config \in
              { None,
                [configurable |-> ("system_message" :> "req")],
                [configurable |-> ("user_id" :> "u2" @@ ToolsKey :> <<CI>>)] } }

\* an optional field of a request body: None, or the value it carries
Some(v) == [some |-> v]

\* FeedbackCreateRequest: run_id, key, and optional score, value, comment
FeedbackRequests ==
    [ run_id  : {"run1", "run2"},
      key     : {"correctness", "helpfulness"},
      score   : {None, Some(0), Some(1)},
      value   : {None, Some("yes")},
      comment : {None, Some("good")} ]

(* ------------------------------ state --------------------------------- *)

VARIABLES
    threads,        \* storage: the thread rows
    assistants,     \* storage: the assistant rows
    sandbox,        \* the code-interpreter singleton: stopped, starting, started
    provisioned,    \* how many times the sandbox was actually brought online
    failures,       \* how many startups failed
    pc,             \* per request: where its handler stands
    mode,           \* per request: "background" (POST /runs) or "stream"
    user,           \* per request: the authenticated caller's user id
    payload,        \* per request: the CreateRunPayload
    thread,         \* per request: the looked-up thread row, or None
    assistant,      \* per request: the looked-up assistant row, or None
    config,         \* per request: the effective config, or None
    validated,      \* per request: "no", "skipped", "ok", "failed"
    idx,            \* per request: position of the tool loop (1-based)
    starts,         \* per request: astart() calls made
    started,        \* per request: astart() calls that returned
    response,       \* per request: the HTTP response, or None
    execs,          \* per request: agent executions handed (input, config)
    task,           \* per request: background task: "none","queued","ok","failed"
    stream,         \* per request: "none", "open", "closed"
    produced,       \* per request: the snapshots the agent yielded
    ending,         \* per request: how the agent ended: "none","complete","error"
    events,         \* per request: the events sent on the stream
    tracing,        \* tracing_is_enabled() when the routes were registered
    fb_pc,          \* feedback request: "idle", "handler", "done"
    feedback_create_req,  \* the feedback request body, or None
    fb_call,        \* the arguments create_feedback was called with, or None
    fb_delivery,    \* "none", "recorded", "rejected", "raised"
    fb_response,    \* the HTTP response to the feedback request, or None
    phase,          \* position of lifespan(): see LifespanPhases
    pg_pool,        \* the global _pg_pool
    langserve,      \* the global _langserve
    pool_state,     \* the asyncpg pool: "none", "open", "closing", "closed"
    client_state,   \* the agent-runtime HTTP client: "none", "open", "closed"
    seen            \* per request: what its last get_pg_pool() and
                    \* get_langserve() returned, or None

storage == <<threads, assistants>>
tool    == <<sandbox, provisioned, failures>>
prep    == <<thread, assistant, config, validated, idx, starts, started>>
run     == <<execs, task, stream, produced, ending, events>>
pipeline  == <<storage, tool, pc, mode, user, payload, prep, response, run>>
telemetry == <<tracing, fb_pc, feedback_create_req, fb_call, fb_delivery,
               fb_response>>
process   == <<phase, pg_pool, langserve, pool_state, client_state, seen>>
service   == <<telemetry, process>>
vars      == <<pipeline, service>>

InitWith(ts, as) ==
    /\ threads = ts
    /\ assistants = as
    /\ sandbox = "stopped"
    /\ provisioned = 0
    /\ failures = 0
    /\ pc = [r \in Reqs |-> "idle"]
    /\ mode = [r \in Reqs |-> "none"]
    /\ user = [r \in Reqs |-> "none"]
    /\ payload = [r \in Reqs |-> None]
    /\ thread = [r \in Reqs |-> None]
    /\ assistant = [r \in Reqs |-> None]
    /\ config = [r \in Reqs |-> None]
    /\ validated = [r \in Reqs |-> "no"]
    /\ idx = [r \in Reqs |-> 1]
    /\ starts = [r \in Reqs |-> 0]
    /\ started = [r \in Reqs |-> 0]
    /\ response = [r \in Reqs |-> None]
    /\ execs = [r \in Reqs |-> <<>>]
    /\ task = [r \in Reqs |-> "none"]
    /\ stream = [r \in Reqs |-> "none"]
    /\ produced = [r \in Reqs |-> <<>>]
    /\ ending = [r \in Reqs |-> "none"]
    /\ events = [r \in Reqs |-> <<>>]

\* the handles lifespan() stores in the two globals
Pool == [type |-> "Pool"]
LangServeClient == [type |-> "LangServeClient"]

LifespanPhases ==
    { "init",               \* lifespan() not entered: lines 9-10
      "creating_pool",      \* awaiting asyncpg.create_pool: line 37
      "startup_failed",     \* an exception left lifespan() before the yield
      "running",            \* at the yield: line 46
      "aborted",            \* the application body raised into the yield
      "closing_pool",       \* awaiting _pg_pool.close(): line 47
      "closing_client",     \* awaiting the client's aclose(): line 48
      "pool_close_failed",  \* _pg_pool.close() raised
      "client_close_failed",\* aclose() raised
      "stopped" }           \* lifespan() returned: after line 50

\* no feedback request yet; the feedback route is registered iff flag
TelemetryInit(flag) ==
    /\ tracing = flag
    /\ fb_pc = "idle"
    /\ feedback_create_req = None
    /\ fb_call = None
    /\ fb_delivery = "none"
    /\ fb_response = None

\* the module state of lifespan.py after import: lines 9-10
LifespanStart ==
    /\ phase = "init"
    /\ pg_pool = None
    /\ langserve = None
    /\ pool_state = "none"
    /\ client_state = "none"
    /\ seen = [r \in Reqs |-> None]

\* the application is serving: lifespan() is suspended at its yield
Serving ==
    /\ phase = "running"
    /\ pg_pool = Pool
    /\ langserve = LangServeClient
    /\ pool_state = "open"
    /\ client_state = "open"
    /\ seen = [r \in Reqs |-> None]

Init ==
    /\ InitWith(StoredThreads, StoredAssistants)
    /\ TelemetryInit(TRUE)
    /\ Serving

FeedbackInit ==
    /\ InitWith(StoredThreads, StoredAssistants)
    /\ \E flag \in BOOLEAN : TelemetryInit(flag)
    /\ Serving

LifespanInit ==
    /\ InitWith(StoredThreads, StoredAssistants)
    /\ TelemetryInit(TRUE)
    /\ LifespanStart

(* ------------------------- storage lookups ---------------------------- *)

\* get_thread(user_id, thread_id): the caller's thread with that id, or None
get_thread(user_id, thread_id) ==
    LET rows == { t \in threads : t.user_id = user_id /\ t.thread_id = thread_id }
    IN  IF rows = {} THEN None ELSE CHOOSE t \in rows : TRUE

\* get_assistant(user_id, assistant_id): the caller's assistant, or None
get_assistant(user_id, assistant_id) ==
    LET rows == { a \in assistants :
                    a.user_id = user_id /\ a.assistant_id = assistant_id }
    IN  IF rows = {} THEN None ELSE CHOOSE a \in rows : TRUE

(* --------------------------- responses -------------------------------- *)

HTTPException(status_code, detail) == [status |-> status_code, detail |-> detail]
RequestValidationError == [status |-> 422, detail |-> "validation"]
ServerError == [status |-> 500, detail |-> "Internal Server Error"]
StatusOk == [status |-> 200, detail |-> "ok"]
EventSourceResponse == [status |-> 200, detail |-> "event-stream"]

(* -------------------- _run_input_and_config --------------------------- *)

\* a request of the set Q arrives at POST /runs or POST /runs/stream
ReceiveFrom(r, Q) ==
    /\ pc[r] = "idle"
    /\ \E q \in Q :
         /\ mode' = [mode EXCEPT ![r] = q.mode]
         /\ user' = [user EXCEPT ![r] = q.user_id]
         /\ payload' = [payload EXCEPT ![r] = q.payload]
    /\ pc' = [pc EXCEPT ![r] = "get_thread"]
    /\ UNCHANGED <<service, storage, tool, prep, response, run>>

Receive(r) == ReceiveFrom(r, Requests)

ReceiveRace(r) == ReceiveFrom(r, RaceRequests)

\* GetThread without its "if not thread" check: the handler carries on
GetThreadUnchecked(r) ==
    /\ pc[r] = "get_thread"
    /\ thread' = [thread EXCEPT ![r] = get_thread(user[r], payload[r].thread_id)]
    /\ pc' = [pc EXCEPT ![r] = "get_assistant"]
    /\ UNCHANGED <<service, storage, tool, mode, user, payload, assistant, config,
                   validated, idx, starts, started, response, run>>

ReceiveOverride(r) == ReceiveFrom(r, OverrideRequests)

\* thread = await get_thread(...); if not thread: raise 404
GetThread(r) ==
    /\ pc[r] = "get_thread"
    /\ LET t == get_thread(user[r], payload[r].thread_id)
       IN  IF t = None
           THEN /\ response' = [response EXCEPT
                                  ![r] = HTTPException(404, "Thread not found")]
                /\ pc' = [pc EXCEPT ![r] = "done"]
                /\ UNCHANGED thread
           ELSE /\ thread' = [thread EXCEPT ![r] = t]
                /\ pc' = [pc EXCEPT ![r] = "get_assistant"]
                /\ UNCHANGED response
    /\ UNCHANGED <<service, storage, tool, mode, user, payload, assistant, config,
                   validated, idx, starts, started, run>>

\* GetAssistant without its "if not assistant" check
GetAssistantUnchecked(r) ==
    /\ pc[r] = "get_assistant"
    /\ assistant' = [assistant EXCEPT
                       ![r] = get_assistant(user[r], Str(thread[r].assistant_id))]
    /\ pc' = [pc EXCEPT ![r] = "resolve"]
    /\ UNCHANGED <<service, storage, tool, mode, user, payload, thread, config,
                   validated, idx, starts, started, response, run>>

\* assistant = await get_assistant(...); if not assistant: raise 404
GetAssistant(r) ==
    /\ pc[r] = "get_assistant"
    /\ LET a == get_assistant(user[r], Str(thread[r].assistant_id))
       IN  IF a = None
           THEN /\ response' = [response EXCEPT
                                  ![r] = HTTPException(404, "Assistant not found")]
                /\ pc' = [pc EXCEPT ![r] = "done"]
                /\ UNCHANGED assistant
           ELSE /\ assistant' = [assistant EXCEPT ![r] = a]
                /\ pc' = [pc EXCEPT ![r] = "resolve"]
                /\ UNCHANGED response
    /\ UNCHANGED <<service, storage, tool, mode, user, payload, thread, config,
                   validated, idx, starts, started, run>>

\* EffectiveConfig with the request override spread after the identity keys
EffectiveConfigOverrideLast(a, p, user_id, t) ==
    LET template == a.config
        override == Or(Get(Or(p.config, EmptyDict), "configurable"), EmptyDict)
        identity == ("user_id" :> user_id)
                    @@ ("thread_id" :> Str(t.thread_id))
                    @@ ("assistant_id" :> Str(a.assistant_id))
    IN  Merge(template,
              Single("configurable",
                     Merge(Merge(template.configurable, identity), override)))

\* EffectiveConfig with the request's whole config spread over the template
EffectiveConfigRequestOuter(a, p, user_id, t) ==
    LET template == a.config
        override == Or(Get(Or(p.config, EmptyDict), "configurable"), EmptyDict)
        identity == ("user_id" :> user_id)
                    @@ ("thread_id" :> Str(t.thread_id))
                    @@ ("assistant_id" :> Str(a.assistant_id))
    IN  Merge(Merge(template, Or(p.config, EmptyDict)),
              Single("configurable",
                     Merge(Merge(template.configurable, override), identity)))

\* config = {**assistant["config"],
\*           "configurable": {**assistant["config"]["configurable"],
\*                            **((payload.config or {}).get("configurable") or {}),
\*                            "user_id": ..., "thread_id": ..., "assistant_id": ...}}
EffectiveConfig(a, p, user_id, t) ==
    LET template == a.config
        override == Or(Get(Or(p.config, EmptyDict), "configurable"), EmptyDict)
        identity == ("user_id" :> user_id)
                    @@ ("thread_id" :> Str(t.thread_id))
                    @@ ("assistant_id" :> Str(a.assistant_id))
    IN  Merge(template,
              Single("configurable",
                     Merge(Merge(template.configurable, override), identity)))

\* the list the tool loop iterates: assistant["config"]["configurable"][ToolsKey]
ScannedTools(r) == assistant[r].config.configurable[ToolsKey]

\* position of the first code-interpreter entry at or after i, 0 if none
NextCodeInterpreter(tools, i) ==
    LET hits == { j \in i..Len(tools) : tools[j].type = CODE_INTERPRETER }
    IN  IF hits = {} THEN 0 ELSE CHOOSE j \in hits : \A k \in hits : j <= k

\* ToolLoop that fires every astart() without awaiting it
ToolLoopNoAwait(r, i) ==
    LET hits == { j \in i..Len(ScannedTools(r)) :
                    ScannedTools(r)[j].type = CODE_INTERPRETER }
    IN  /\ pc' = [pc EXCEPT ![r] = "prepared"]
        /\ idx' = [idx EXCEPT ![r] = Len(ScannedTools(r)) + 1]
        /\ starts' = [starts EXCEPT ![r] = @ + Cardinality(hits)]

\* ToolLoop that stops after the first code-interpreter entry
ToolLoopOnce(r, i) ==
    LET hits == { j \in i..Len(ScannedTools(r)) :
                    ScannedTools(r)[j].type = CODE_INTERPRETER }
    IN  IF i > 1 \/ hits = {}
        THEN /\ pc' = [pc EXCEPT ![r] = "prepared"]
             /\ idx' = [idx EXCEPT ![r] = Len(ScannedTools(r)) + 1]
             /\ UNCHANGED starts
        ELSE /\ pc' = [pc EXCEPT ![r] = "astart"]
             /\ idx' = [idx EXCEPT ![r] = CHOOSE j \in hits : \A k \in hits : j <= k]
             /\ starts' = [starts EXCEPT ![r] = @ + 1]

\* the tool loop from position i up to its next await (an astart() call) or
\* to the return of (payload.input, config)
ToolLoop(r, i) ==
    LET j == NextCodeInterpreter(ScannedTools(r), i)
    IN  IF j = 0
        THEN /\ pc' = [pc EXCEPT ![r] = "prepared"]
             /\ idx' = [idx EXCEPT ![r] = Len(ScannedTools(r)) + 1]
             /\ UNCHANGED starts
        ELSE /\ pc' = [pc EXCEPT ![r] = "astart"]
             /\ idx' = [idx EXCEPT ![r] = j]
             /\ starts' = [starts EXCEPT ![r] = @ + 1]

\* the handler fails with an exception FastAPI answers with a 500
Raise500(r) ==
    /\ response' = [response EXCEPT ![r] = ServerError]
    /\ pc' = [pc EXCEPT ![r] = "done"]

\* Validate with the ValidationError swallowed: the handler carries on
ValidateSwallowed(r) ==
    /\ pc[r] = "resolve"
    /\ config' = [config EXCEPT
                    ![r] = EffectiveConfig(assistant[r], payload[r], user[r], thread[r])]
    /\ \E verdict \in BOOLEAN :
         validated' = [validated EXCEPT
                         ![r] = IF payload[r].input = None THEN "skipped"
                                ELSE IF verdict THEN "ok" ELSE "failed"]
    /\ IF ToolsKey \in DOMAIN assistant[r].config.configurable
       THEN ToolLoop(r, 1) /\ UNCHANGED response
       ELSE Raise500(r) /\ UNCHANGED <<idx, starts>>
    /\ UNCHANGED <<service, storage, tool, mode, user, payload, thread, assistant,
                   started, run>>

\* Validate that merges into the assistant's own config object, which the
\* storage layer shares between lookups
ValidateInPlace(r) ==
    /\ pc[r] = "resolve"
    /\ LET cfg == EffectiveConfig(assistant[r], payload[r], user[r], thread[r])
           row == [assistant[r] EXCEPT !.config = cfg]
       IN  /\ config' = [config EXCEPT ![r] = cfg]
           /\ assistant' = [assistant EXCEPT ![r] = row]
           /\ assistants' = (assistants \ {assistant[r]}) \cup {row}
    /\ \E verdict \in BOOLEAN :
         IF payload[r].input # None /\ ~verdict
         THEN /\ validated' = [validated EXCEPT ![r] = "failed"]
              /\ response' = [response EXCEPT ![r] = RequestValidationError]
              /\ pc' = [pc EXCEPT ![r] = "done"]
              /\ UNCHANGED <<idx, starts>>
         ELSE /\ validated' = [validated EXCEPT
                                 ![r] = IF payload[r].input # None
                                        THEN "ok" ELSE "skipped"]
              /\ IF ToolsKey \in DOMAIN assistant[r].config.configurable
                 THEN ToolLoop(r, 1) /\ UNCHANGED response
                 ELSE Raise500(r) /\ UNCHANGED <<idx, starts>>
    /\ UNCHANGED <<service, threads, tool, mode, user, payload, thread, started, run>>

\* the config merge, the validation of payload.input against the agent's
\* input schema for that config (the schema is the agent's: either verdict
\* is possible), then the tool loop up to its first await
Validate(r) ==
    /\ pc[r] = "resolve"
    /\ config' = [config EXCEPT
                    ![r] = EffectiveConfig(assistant[r], payload[r], user[r], thread[r])]
    /\ \E verdict \in BOOLEAN :
         IF payload[r].input # None /\ ~verdict
         THEN /\ validated' = [validated EXCEPT ![r] = "failed"]
              /\ response' = [response EXCEPT ![r] = RequestValidationError]
              /\ pc' = [pc EXCEPT ![r] = "done"]
              /\ UNCHANGED <<idx, starts>>
         ELSE /\ validated' = [validated EXCEPT
                                 ![r] = IF payload[r].input # None
                                        THEN "ok" ELSE "skipped"]
              /\ IF ToolsKey \in DOMAIN assistant[r].config.configurable
                 THEN ToolLoop(r, 1) /\ UNCHANGED response
                 ELSE Raise500(r) /\ UNCHANGED <<idx, starts>>
    /\ UNCHANGED <<service, storage, tool, mode, user, payload, thread, assistant,
                   started, run>>

\* AStart that checks "started" and then starts, with no lock: a caller that
\* finds the sandbox not yet online brings it online itself
AStartUnlocked(r) ==
    /\ pc[r] = "astart"
    /\ \/ /\ sandbox = "started"
          /\ started' = [started EXCEPT ![r] = @ + 1]
          /\ ToolLoop(r, idx[r] + 1)
          /\ UNCHANGED tool
       \/ /\ sandbox # "started"
          /\ sandbox' = "starting"
          /\ pc' = [pc EXCEPT ![r] = "provisioning"]
          /\ UNCHANGED <<provisioned, failures, idx, starts, started>>
    /\ UNCHANGED <<service, storage, mode, user, payload, thread, assistant, config,
                   validated, response, run>>

\* await get_code_interpreter().astart(): a started sandbox is left alone, a
\* stopped one is brought online by this caller, and while another caller is
\* bringing it online this one waits
AStart(r) ==
    /\ pc[r] = "astart"
    /\ \/ /\ sandbox = "started"
          /\ started' = [started EXCEPT ![r] = @ + 1]
          /\ ToolLoop(r, idx[r] + 1)
          /\ UNCHANGED tool
       \/ /\ sandbox = "stopped"
          /\ sandbox' = "starting"
          /\ pc' = [pc EXCEPT ![r] = "provisioning"]
          /\ UNCHANGED <<provisioned, failures, idx, starts, started>>
    /\ UNCHANGED <<service, storage, mode, user, payload, thread, assistant, config,
                   validated, response, run>>

\* the startup this caller began ends: the sandbox is online, or the startup
\* failed and astart() raises
Provision(r) ==
    /\ pc[r] = "provisioning"
    /\ \/ /\ sandbox' = "started"
          /\ provisioned' = provisioned + 1
          /\ started' = [started EXCEPT ![r] = @ + 1]
          /\ ToolLoop(r, idx[r] + 1)
          /\ UNCHANGED <<failures, response>>
       \/ /\ failures < MaxFailures
          /\ sandbox' = "stopped"
          /\ failures' = failures + 1
          /\ Raise500(r)
          /\ UNCHANGED <<provisioned, idx, starts, started>>
    /\ UNCHANGED <<service, storage, mode, user, payload, thread, assistant, config,
                   validated, run>>

(* --------------------------- create_run ------------------------------- *)

\* CreateRun that awaits agent.ainvoke itself and answers with its outcome
CreateRunAwaits(r) ==
    /\ pc[r] = "prepared"
    /\ mode[r] = "background"
    /\ execs' = [execs EXCEPT
                   ![r] = Append(@, [how |-> "ainvoke", input |-> payload[r].input,
                                     config |-> config[r]])]
    /\ \E outcome \in {"ok", "failed"} :
         /\ task' = [task EXCEPT ![r] = outcome]
         /\ response' = [response EXCEPT
                           ![r] = IF outcome = "ok" THEN StatusOk ELSE ServerError]
    /\ pc' = [pc EXCEPT ![r] = "done"]
    /\ UNCHANGED <<service, storage, tool, mode, user, payload, prep,
                   stream, produced, ending, events>>

\* background_tasks.add_task(agent.ainvoke, input_, config); return ok
CreateRun(r) ==
    /\ pc[r] = "prepared"
    /\ mode[r] = "background"
    /\ execs' = [execs EXCEPT
                   ![r] = Append(@, [how |-> "ainvoke", input |-> payload[r].input,
                                     config |-> config[r]])]
    /\ task' = [task EXCEPT ![r] = "queued"]
    /\ response' = [response EXCEPT ![r] = StatusOk]
    /\ pc' = [pc EXCEPT ![r] = "background"]
    /\ UNCHANGED <<service, storage, tool, mode, user, payload, prep,
                   stream, produced, ending, events>>

\* the background task runs agent.ainvoke after the response was sent
BackgroundTask(r) ==
    /\ pc[r] = "background"
    /\ \E outcome \in {"ok", "failed"} : task' = [task EXCEPT ![r] = outcome]
    /\ pc' = [pc EXCEPT ![r] = "done"]
    /\ UNCHANGED <<service, storage, tool, mode, user, payload, prep, response,
                   execs, stream, produced, ending, events>>

(* --------------------------- stream_run ------------------------------- *)

\* to_sse of one snapshot: a data event carrying it
DataEvent(snapshot) == [event |-> "data", data |-> snapshot]
ErrorEvent == [event |-> "error", data |-> 500]

\* the i-th snapshot of the agent
Snapshot(i) == i

\* StreamRun that answers with the event stream before the preparation
StreamRunEarly(r) ==
    /\ pc[r] = "get_thread"
    /\ mode[r] = "stream"
    /\ execs' = [execs EXCEPT
                   ![r] = Append(@, [how |-> "astream", input |-> payload[r].input,
                                     config |-> config[r]])]
    /\ stream' = [stream EXCEPT ![r] = "open"]
    /\ response' = [response EXCEPT ![r] = EventSourceResponse]
    /\ pc' = [pc EXCEPT ![r] = "streaming"]
    /\ UNCHANGED <<service, storage, tool, mode, user, payload, prep,
                   task, produced, ending, events>>

\* return EventSourceResponse(to_sse(astream_state(agent, input_, config)))
StreamRun(r) ==
    /\ pc[r] = "prepared"
    /\ mode[r] = "stream"
    /\ execs' = [execs EXCEPT
                   ![r] = Append(@, [how |-> "astream", input |-> payload[r].input,
                                     config |-> config[r]])]
    /\ stream' = [stream EXCEPT ![r] = "open"]
    /\ response' = [response EXCEPT ![r] = EventSourceResponse]
    /\ pc' = [pc EXCEPT ![r] = "streaming"]
    /\ UNCHANGED <<service, storage, tool, mode, user, payload, prep,
                   task, produced, ending, events>>

\* AgentYield that drops the event of a snapshot
AgentYieldLost(r) ==
    /\ pc[r] = "streaming"
    /\ Len(produced[r]) < MaxSnapshots
    /\ produced' = [produced EXCEPT ![r] = Append(@, Snapshot(Len(@) + 1))]
    /\ UNCHANGED <<service, storage, tool, pc, mode, user, payload, prep, response,
                   execs, task, stream, ending, events>>

\* the response pulls the next snapshot and sends it as one event
AgentYield(r) ==
    /\ pc[r] = "streaming"
    /\ Len(produced[r]) < MaxSnapshots
    /\ LET s == Snapshot(Len(produced[r]) + 1)
       IN  /\ produced' = [produced EXCEPT ![r] = Append(@, s)]
           /\ events' = [events EXCEPT ![r] = Append(@, DataEvent(s))]
    /\ UNCHANGED <<service, storage, tool, pc, mode, user, payload, prep, response,
                   execs, task, stream, ending>>

\* the agent completes: the snapshot sequence is exhausted, the stream closes
AgentComplete(r) ==
    /\ pc[r] = "streaming"
    /\ ending' = [ending EXCEPT ![r] = "complete"]
    /\ stream' = [stream EXCEPT ![r] = "closed"]
    /\ pc' = [pc EXCEPT ![r] = "done"]
    /\ UNCHANGED <<service, storage, tool, mode, user, payload, prep, response,
                   execs, task, produced, events>>

\* AgentRaise that only closes the stream
AgentRaiseSilent(r) ==
    /\ pc[r] = "streaming"
    /\ ending' = [ending EXCEPT ![r] = "error"]
    /\ stream' = [stream EXCEPT ![r] = "closed"]
    /\ pc' = [pc EXCEPT ![r] = "done"]
    /\ UNCHANGED <<service, storage, tool, mode, user, payload, prep, response,
                   execs, task, produced, events>>

\* the agent raises: a terminal error event is sent, the stream closes
AgentRaise(r) ==
    /\ pc[r] = "streaming"
    /\ ending' = [ending EXCEPT ![r] = "error"]
    /\ events' = [events EXCEPT ![r] = Append(@, ErrorEvent)]
    /\ stream' = [stream EXCEPT ![r] = "closed"]
    /\ pc' = [pc EXCEPT ![r] = "done"]
    /\ UNCHANGED <<service, storage, tool, mode, user, payload, prep, response,
                   execs, task, produced>>

(* ------------------------- specification ------------------------------ *)

\* the steps of the handler of request r after its arrival
Handler(r) ==
    \/ GetThread(r)
    \/ GetAssistant(r)
    \/ Validate(r)
    \/ AStart(r)
    \/ Provision(r)
    \/ CreateRun(r)
    \/ BackgroundTask(r)
    \/ StreamRun(r)
    \/ AgentYield(r)
    \/ AgentComplete(r)
    \/ AgentRaise(r)

\* one request, any payload
Next == Receive(1) \/ Handler(1)

Spec == Init /\ [][Next]_vars

\* NumReqs concurrent requests that reach the tool bootstrap
NextRace == \E r \in Reqs : ReceiveRace(r) \/ Handler(r)

RaceSpec == Init /\ [][NextRace]_vars

\* NumReqs concurrent background runs on one assistant, with and without
\* overrides
NextOverride ==
    \E r \in Reqs :
        \/ ReceiveOverride(r)
        \/ GetThread(r)
        \/ GetAssistant(r)
        \/ Validate(r)
        \/ AStart(r)
        \/ Provision(r)
        \/ CreateRun(r)
        \/ BackgroundTask(r)

OverrideSpec == Init /\ [][NextOverride]_vars

(* ----------------------- create_run_feedback -------------------------- *)

\* a request arrives at POST /runs/feedback; the route exists only if
\* tracing_is_enabled() held at import, otherwise the router answers 404
ReceiveFeedback ==
    /\ fb_pc = "idle"
    /\ \E q \in FeedbackRequests : feedback_create_req' = q
    /\ IF tracing
       THEN /\ fb_pc' = "handler"
            /\ UNCHANGED fb_response
       ELSE /\ fb_pc' = "done"
            /\ fb_response' = HTTPException(404, "Not Found")
    /\ UNCHANGED <<pipeline, process, tracing, fb_call, fb_delivery>>

\* the arguments of langsmith_client.create_feedback(...)
CreateFeedbackArgs(req) ==
    [ run_id      |-> req.run_id,
      key         |-> req.key,
      score       |-> req.score,
      value       |-> req.value,
      comment     |-> req.comment,
      source_info |-> [from_langserve |-> TRUE] ]

\* create_run_feedback inside try/except: "ok" whatever create_feedback did
create_run_feedback_swallowed ==
    /\ fb_pc = "handler"
    /\ fb_call' = CreateFeedbackArgs(feedback_create_req)
    /\ \E outcome \in {"recorded", "rejected", "raised"} :
         /\ fb_delivery' = outcome
         /\ fb_response' = StatusOk
    /\ fb_pc' = "done"
    /\ UNCHANGED <<pipeline, process, tracing, feedback_create_req>>

\* the handler: one synchronous call of create_feedback, which records the
\* feedback, has it silently rejected by the server, or raises; the handler
\* catches nothing, so an exception becomes the framework's 500
create_run_feedback ==
    /\ fb_pc = "handler"
    /\ fb_call' = CreateFeedbackArgs(feedback_create_req)
    /\ \E outcome \in {"recorded", "rejected", "raised"} :
         /\ fb_delivery' = outcome
         /\ fb_response' = IF outcome = "raised" THEN ServerError ELSE StatusOk
    /\ fb_pc' = "done"
    /\ UNCHANGED <<pipeline, process, tracing, feedback_create_req>>

FeedbackNext == ReceiveFeedback \/ create_run_feedback

FeedbackSpec == FeedbackInit /\ [][FeedbackNext]_vars

(* ----------------------------- lifespan ------------------------------- *)

get_pg_pool == pg_pool

get_langserve == langserve

\* lifespan() is entered: the arguments of create_pool are evaluated, where
\* os.environ[...] raises KeyError for a variable that is not set, then
\* create_pool is awaited
LifespanEnter ==
    /\ phase = "init"
    /\ \E postgres_env \in BOOLEAN :
         phase' = IF postgres_env THEN "creating_pool" ELSE "startup_failed"
    /\ UNCHANGED <<pipeline, telemetry, pg_pool, langserve, pool_state,
                   client_state, seen>>

\* create_pool returns or raises; on return _pg_pool is assigned, then
\* get_client(url=os.environ["LANGSERVE_URL"]) returns or raises, and on
\* return _langserve is assigned and lifespan() yields
CreatePool ==
    /\ phase = "creating_pool"
    /\ \E pool_ok, client_ok \in BOOLEAN :
         IF ~pool_ok
         THEN /\ phase' = "startup_failed"
              /\ UNCHANGED <<pg_pool, langserve, pool_state, client_state>>
         ELSE /\ pg_pool' = Pool
              /\ pool_state' = "open"
              /\ IF client_ok
                 THEN /\ langserve' = LangServeClient
                      /\ client_state' = "open"
                      /\ phase' = "running"
                 ELSE /\ phase' = "startup_failed"
                      /\ UNCHANGED <<langserve, client_state>>
    /\ UNCHANGED <<pipeline, telemetry, seen>>

\* Shutdown that clears the globals before it closes the handles
ShutdownResetsFirst ==
    /\ phase = "running"
    /\ pool_state' = "closing"
    /\ pg_pool' = None
    /\ langserve' = None
    /\ phase' = "closing_pool"
    /\ UNCHANGED <<pipeline, telemetry, client_state, seen>>

\* the application shuts down: lifespan() resumes after the yield and
\* awaits _pg_pool.close()
Shutdown ==
    /\ phase = "running"
    /\ pool_state' = "closing"
    /\ phase' = "closing_pool"
    /\ UNCHANGED <<pipeline, telemetry, pg_pool, langserve, client_state, seen>>

\* the application body raises: the exception is thrown into lifespan() at
\* its yield, and without try/finally lines 47-50 never run
BodyError ==
    /\ phase = "running"
    /\ phase' = "aborted"
    /\ UNCHANGED <<pipeline, telemetry, pg_pool, langserve, pool_state,
                   client_state, seen>>

\* _pg_pool.close() returns, and the client's aclose() is awaited; or it
\* raises and leaves lifespan(), the pool closed or still closing
PoolClosed ==
    /\ phase = "closing_pool"
    /\ \/ /\ pool_state' = "closed"
          /\ phase' = "closing_client"
       \/ /\ pool_state' \in {"closing", "closed"}
          /\ phase' = "pool_close_failed"
    /\ UNCHANGED <<pipeline, telemetry, pg_pool, langserve, client_state, seen>>

\* ClientClosed that resets _pg_pool and forgets _langserve
ClientClosedKeepsClient ==
    /\ phase = "closing_client"
    /\ \/ /\ client_state' = "closed"
          /\ pg_pool' = None
          /\ langserve' = langserve
          /\ phase' = "stopped"
       \/ /\ client_state' \in {"open", "closed"}
          /\ phase' = "client_close_failed"
          /\ UNCHANGED <<pg_pool, langserve>>
    /\ UNCHANGED <<pipeline, telemetry, pool_state, seen>>

\* aclose() returns, both globals are reset and lifespan() returns; or it
\* raises and leaves lifespan(), the client closed or still open
ClientClosed ==
    /\ phase = "closing_client"
    /\ \/ /\ client_state' = "closed"
          /\ pg_pool' = None
          /\ langserve' = None
          /\ phase' = "stopped"
       \/ /\ client_state' \in {"open", "closed"}
          /\ phase' = "client_close_failed"
          /\ UNCHANGED <<pg_pool, langserve>>
    /\ UNCHANGED <<pipeline, telemetry, pool_state, seen>>

\* a task of request r calls get_pg_pool() and get_langserve()
Observe(r) ==
    /\ seen' = [seen EXCEPT ![r] = [ pool       |-> get_pg_pool,
                                     client     |-> get_langserve,
                                     pool_state |-> pool_state,
                                     phase      |-> phase ]]
    /\ UNCHANGED <<pipeline, telemetry, phase, pg_pool, langserve, pool_state,
                   client_state>>

LifespanNext ==
    \/ LifespanEnter
    \/ CreatePool
    \/ Shutdown
    \/ BodyError
    \/ PoolClosed
    \/ ClientClosed
    \/ \E r \in Reqs : Observe(r)

LifespanSpec == LifespanInit /\ [][LifespanNext]_vars

(* ------------------------------ claims -------------------------------- *)

\* request r has left the thread lookup
PastThreadLookup(r) == pc[r] \notin {"idle", "get_thread"}

\* request r has left the assistant lookup
PastAssistantLookup(r) == PastThreadLookup(r) /\ pc[r] # "get_assistant"

\* nothing of the stages after the lookups has happened for request r
NoLaterStage(r) ==
    /\ config[r] = None
    /\ validated[r] = "no"
    /\ starts[r] = 0
    /\ started[r] = 0
    /\ execs[r] = <<>>
    /\ task[r] = "none"
    /\ stream[r] = "none"
    /\ events[r] = <<>>

\* the caller has a stored thread with the id of the request
ThreadStored(r) ==
    \E t \in threads : t.user_id = user[r] /\ t.thread_id = payload[r].thread_id

\* the caller has a stored assistant with the id the thread names
AssistantStored(r) ==
    \E a \in assistants :
        a.user_id = user[r] /\ a.assistant_id = thread[r].assistant_id

\* C1: a request whose thread lookup by (user_id, thread_id) finds nothing
\* ends with 404 "Thread not found"; no assistant lookup, validation,
\* code-interpreter start or agent execution happens for it.
C1_ThreadNotFound ==
    \A r \in Reqs :
        (PastThreadLookup(r) /\ ~ThreadStored(r)) =>
            /\ pc[r] = "done"
            /\ response[r] = [status |-> 404, detail |-> "Thread not found"]
            /\ thread[r] = None
            /\ assistant[r] = None
            /\ NoLaterStage(r)

\* a request for another user's thread has ended
C1_Witness ==
    \E r \in Reqs :
        /\ pc[r] = "done"
        /\ user[r] = "u1"
        /\ payload[r].thread_id = "t4"
        /\ response[r].status = 404

\* C2: a request whose thread exists but whose assistant lookup by
\* (user_id, thread.assistant_id) finds nothing ends with 404 "Assistant not
\* found"; no config is built, nothing is validated, started or executed.
C2_AssistantNotFound ==
    \A r \in Reqs :
        (PastAssistantLookup(r) /\ ThreadStored(r) /\ ~AssistantStored(r)) =>
            /\ pc[r] = "done"
            /\ response[r] = [status |-> 404, detail |-> "Assistant not found"]
            /\ assistant[r] = None
            /\ NoLaterStage(r)

\* a request on a thread whose assistant belongs to another user has ended
C2_Witness ==
    \E r \in Reqs :
        /\ pc[r] = "done"
        /\ payload[r].thread_id = "t6"
        /\ thread[r] # None
        /\ response[r].status = 404

\* the configs request r built or handed on: the one validation saw and the
\* ones the agent was executed with
ConfigsOf(r) ==
    (IF config[r] = None THEN {} ELSE {config[r]})
    \cup { execs[r][i].config : i \in 1..Len(execs[r]) }

\* C3: whatever the assistant template and the request override hold, the
\* effective config's configurable carries the three identity keys, with the
\* caller's user id, the looked-up thread's id and the assistant's id.
C3_IdentityAuthoritative ==
    \A r \in Reqs : \A c \in ConfigsOf(r) :
        /\ "configurable" \in DOMAIN c
        /\ IdentityKeys \subseteq DOMAIN c.configurable
        /\ c.configurable["user_id"] = user[r]
        /\ c.configurable["thread_id"] = thread[r].thread_id
        /\ c.configurable["assistant_id"] = assistant[r].assistant_id

\* the agent was executed for a request whose override set all three
\* identity keys to foreign values, on a template that carries them too
C3_Witness ==
    \E r \in Reqs :
        /\ execs[r] # <<>>
        /\ assistant[r].assistant_id = "a2"
        /\ payload[r].config # None
        /\ "configurable" \in DOMAIN payload[r].config
        /\ payload[r].config.configurable # None
        /\ IdentityKeys \subseteq DOMAIN payload[r].config.configurable
        /\ payload[r].config.configurable["user_id"] # user[r]

\* C4: a request whose input fails validation never invokes the
\* code-interpreter start and never starts the agent; a start is only ever
\* invoked after the validation stage has passed.
C4_ValidationBeforeBootstrap ==
    \A r \in Reqs :
        /\ validated[r] = "failed" =>
              /\ pc[r] = "done"
              /\ response[r] = RequestValidationError
              /\ starts[r] = 0
              /\ started[r] = 0
              /\ execs[r] = <<>>
              /\ task[r] = "none"
              /\ stream[r] = "none"
        /\ (starts[r] > 0 \/ execs[r] # <<>>) => validated[r] \in {"ok", "skipped"}

\* an input failed validation on an assistant that selects the code
\* interpreter
C4_Witness ==
    \E r \in Reqs :
        /\ validated[r] = "failed"
        /\ assistant[r].assistant_id = "a1"
        /\ payload[r].input = PyList(<<"hello">>)

\* the tool list selects the code interpreter
HasCodeInterpreter(tools) ==
    \E j \in 1..Len(tools) : tools[j].type = CODE_INTERPRETER

\* C5 (state part): the shared sandbox is brought online at most once, by
\* one caller at a time, and a run whose start returned finds it online.
C5_OneStartup ==
    /\ provisioned <= 1
    /\ Cardinality({ r \in Reqs : pc[r] = "provisioning" }) <= 1
    /\ (sandbox = "started") <=> (provisioned = 1)
    /\ \A r \in Reqs :
         /\ pc[r] = "provisioning" => (sandbox = "starting" /\ provisioned = 0)
         /\ started[r] > 0 => (sandbox = "started" /\ provisioned = 1)

\* C5 (step part): a start call on a sandbox that is already online returns
\* without failing and without bringing it online again.
C5_StartedIsLeftAlone ==
    \A r \in Reqs :
        (pc[r] = "astart" /\ sandbox = "started" /\ pc'[r] # pc[r]) =>
            /\ started'[r] = started[r] + 1
            /\ response'[r] = response[r]
            /\ pc'[r] \in {"astart", "prepared"}
            /\ <<sandbox, provisioned, failures>>' = <<sandbox, provisioned, failures>>

\* C5: when runs whose tools include the code interpreter are prepared
\* concurrently, exactly one actual startup of the shared sandbox occurs in
\* every interleaving; within one run the start takes effect once however
\* many code-interpreter entries the list has; a start call on a started
\* sandbox neither fails nor provisions again.
C5_SingleStartup == []C5_OneStartup /\ [][C5_StartedIsLeftAlone]_vars

\* two runs with two code-interpreter entries each were prepared and handed
\* to the agent, after four start calls and one startup
C5_Witness ==
    \E r1, r2 \in Reqs :
        /\ r1 # r2
        /\ execs[r1] # <<>> /\ execs[r2] # <<>>
        /\ started[r1] = 2 /\ started[r2] = 2
        /\ provisioned = 1

\* C6: in both modes the agent is executed only after every start call of
\* the run has returned, with the sandbox online; a failed start ends the
\* request with a server error, no background task and no stream.
C6_StartBeforeExecution ==
    \A r \in Reqs :
        /\ pc[r] \in {"astart", "provisioning"} =>
              /\ execs[r] = <<>> /\ task[r] = "none" /\ stream[r] = "none"
        /\ execs[r] # <<>> =>
              /\ started[r] = starts[r]
              /\ HasCodeInterpreter(ScannedTools(r)) =>
                    (starts[r] >= 1 /\ sandbox = "started")
        /\ (pc[r] = "done" /\ started[r] < starts[r]) =>
              /\ response[r] = ServerError
              /\ execs[r] = <<>> /\ task[r] = "none" /\ stream[r] = "none"
              /\ events[r] = <<>>

\* one run's start failed and another run was executed after both of its
\* start calls returned
C6_Witness ==
    \E r1, r2 \in Reqs :
        /\ pc[r1] = "done" /\ started[r1] < starts[r1]
        /\ execs[r2] # <<>> /\ started[r2] = 2

\* the data events of a snapshot sequence, in its order
DataEvents(snapshots) ==
    [i \in 1..Len(snapshots) |-> [event |-> "data", data |-> snapshots[i]]]

\* C7: a stream whose agent yields S1..Sn and completes carries exactly the
\* n data events of S1..Sn in that order, then closes without error event.
C7_StreamInOrder ==
    \A r \in Reqs :
        /\ (stream[r] = "open" /\ ending[r] = "none") =>
              events[r] = DataEvents(produced[r])
        /\ ending[r] = "complete" =>
              (stream[r] = "closed" /\ events[r] = DataEvents(produced[r]))

\* an agent yielded two snapshots and completed
C7_Witness ==
    \E r \in Reqs :
        /\ ending[r] = "complete"
        /\ stream[r] = "closed"
        /\ Len(produced[r]) >= 2

\* C8: a stream whose agent yields S1..Sk and raises carries the k data
\* events in order, then exactly one terminal error event, then closes; a
\* closed stream without error event is a completed run's.
C8_StreamErrorTerminal ==
    \A r \in Reqs :
        /\ ending[r] = "error" =>
              /\ stream[r] = "closed"
              /\ events[r] = Append(DataEvents(produced[r]),
                                    [event |-> "error", data |-> 500])
        /\ (stream[r] = "closed"
            /\ \A i \in 1..Len(events[r]) : events[r][i].event # "error") =>
              ending[r] = "complete"

\* an agent yielded one snapshot and raised
C8_Witness ==
    \E r \in Reqs :
        /\ ending[r] = "error"
        /\ stream[r] = "closed"
        /\ Len(produced[r]) = 1

\* C9: the tool list that decides the start is the effective config's: the
\* agent is executed with a code-interpreter entry in its config's tool list
\* only after a start call, and without such an entry no start is called.
C9_EffectiveToolsDecideStart ==
    \A r \in Reqs : \A i \in 1..Len(execs[r]) :
        LET tools == execs[r][i].config.configurable[ToolsKey]
        IN  IF HasCodeInterpreter(tools)
            THEN starts[r] >= 1 /\ started[r] = starts[r]
            ELSE starts[r] = 0

\* the "configurable" mapping the request sent, empty if it sent none
RequestConfigurable(p) ==
    IF p.config = None THEN EmptyDict
    ELSE IF "configurable" \notin DOMAIN p.config THEN EmptyDict
    ELSE IF p.config["configurable"] = None THEN EmptyDict
    ELSE p.config["configurable"]

\* C10: outside the identity triple, the effective configurable[k] is the
\* request's configurable[k] where the request defines k and the template's
\* otherwise; every outer key is the template's, the request's are ignored.
C10_MergePrecedence ==
    \A r \in Reqs : \A c \in ConfigsOf(r) :
        LET tmpl == assistant[r].config
            ov == RequestConfigurable(payload[r])
        IN  /\ DOMAIN c = DOMAIN tmpl \cup {"configurable"}
            /\ \A k \in DOMAIN c \ {"configurable"} : c[k] = tmpl[k]
            /\ DOMAIN c.configurable =
                  DOMAIN tmpl.configurable \cup DOMAIN ov \cup IdentityKeys
            /\ \A k \in DOMAIN c.configurable \ IdentityKeys :
                  c.configurable[k] =
                      IF k \in DOMAIN ov THEN ov[k] ELSE tmpl.configurable[k]

\* the agent was executed for a request that sent an outer key and a system
\* message but no tool list, on a template that has all three
C10_Witness ==
    \E r \in Reqs :
        /\ execs[r] # <<>>
        /\ assistant[r].assistant_id = "a1"
        /\ payload[r].config # None
        /\ "tags" \in DOMAIN payload[r].config
        /\ DOMAIN RequestConfigurable(payload[r]) = {"system_message"}

\* request r carried no input: the field was null, or omitted and holds its
\* default
NoInput(r) == payload[r] # None /\ payload[r].input \in {None, PyDict(<<>>)}

\* C11: a request that carries no input (omitted or null) is not validated,
\* proceeds to the tool bootstrap, and the agent is handed an empty message
\* sequence, not null and not a value of another shape.
C11_NoInputSkipsValidation ==
    \A r \in Reqs :
        NoInput(r) =>
            /\ validated[r] \in {"no", "skipped"}
            /\ \A i \in 1..Len(execs[r]) : execs[r][i].input = PyList(<<>>)

\* C12: a POST /runs request whose preparation succeeds submits exactly one
\* agent execution, with the dispatched input and effective config, and is
\* answered {status: ok} while that execution is still queued; the answer is
\* the same whether the execution then succeeds or fails; a request whose
\* preparation fails submits nothing.
C12_BackgroundDispatch ==
    \A r \in Reqs :
        mode[r] = "background" =>
            /\ pc[r] = "background" => task[r] = "queued"
            /\ task[r] # "none" =>
                  /\ execs[r] = << [how |-> "ainvoke",
                                    input |-> payload[r].input,
                                    config |-> config[r]] >>
                  /\ response[r] = [status |-> 200, detail |-> "ok"]
            /\ task[r] = "none" =>
                  /\ execs[r] = <<>>
                  /\ response[r] # [status |-> 200, detail |-> "ok"]
            /\ stream[r] = "none" /\ events[r] = <<>>

\* a background execution failed after its request was answered ok
C12_Witness ==
    \E r \in Reqs :
        /\ mode[r] = "background"
        /\ task[r] = "failed"
        /\ response[r] = StatusOk
        /\ Len(execs[r]) = 1

\* the preparation of request r has succeeded
Prepared(r) == pc[r] \in {"prepared", "background", "streaming"} \/ execs[r] # <<>>

\* the number of code-interpreter entries of a tool list
CountCodeInterpreter(tools) ==
    Cardinality({ j \in 1..Len(tools) : tools[j].type = CODE_INTERPRETER })

\* C18: a successful preparation has called start once per code-interpreter
\* entry of the assistant template's tool list, each call awaited before the
\* next; a run whose template list is empty or has no such entry never
\* touches the singleton.
C18_StartsMatchTemplate ==
    /\ \A r \in Reqs :
         /\ starts[r] <= started[r] + 1
         /\ started[r] <= starts[r]
         /\ pc[r] \in {"astart", "provisioning"} => starts[r] = started[r] + 1
         /\ Prepared(r) =>
               /\ starts[r] = CountCodeInterpreter(ScannedTools(r))
               /\ started[r] = starts[r]
         /\ (assistant[r] # None
             /\ ToolsKey \in DOMAIN assistant[r].config.configurable
             /\ ~HasCodeInterpreter(ScannedTools(r))) => starts[r] = 0
    /\ (\A r \in Reqs : starts[r] = 0) =>
           <<sandbox, provisioned, failures>> = <<"stopped", 0, 0>>

\* a run on a template with two code-interpreter entries, whose override
\* sent an empty tool list, was prepared after two start calls
C18_Witness ==
    \E r \in Reqs :
        /\ Prepared(r)
        /\ starts[r] = 2
        /\ ScannedTools(r) = <<CI, RT, CI>>
        /\ config[r].configurable[ToolsKey] = <<>>

\* something of the stream of request r exists: the response, the snapshot
\* producer, a snapshot or an event
StreamTouched(r) ==
    \/ stream[r] # "none"
    \/ execs[r] # <<>>
    \/ produced[r] # <<>>
    \/ events[r] # <<>>
    \/ ending[r] # "none"

\* C15: in streaming mode the stream and the snapshot producer are created
\* only after the whole preparation succeeded; a request that fails thread
\* lookup, assistant lookup, validation or bootstrap is answered with a plain
\* error response and never emits a stream event.
C15_StreamAfterPreparation ==
    \A r \in Reqs :
        mode[r] = "stream" =>
            /\ StreamTouched(r) =>
                  /\ thread[r] # None /\ assistant[r] # None /\ config[r] # None
                  /\ validated[r] \in {"ok", "skipped"}
                  /\ started[r] = starts[r]
                  /\ response[r] = EventSourceResponse
                  /\ Len(execs[r]) = 1 /\ execs[r][1].how = "astream"
            /\ (pc[r] = "done" /\ ~StreamTouched(r)) =>
                  response[r] \in { HTTPException(404, "Thread not found"),
                                    HTTPException(404, "Assistant not found"),
                                    RequestValidationError, ServerError }
            /\ (thread[r] = None \/ assistant[r] = None
                \/ validated[r] \in {"no", "failed"}
                \/ started[r] < starts[r]) => ~StreamTouched(r)

\* a streaming request whose sandbox startup failed has ended
C15_Witness ==
    \E r \in Reqs :
        /\ mode[r] = "stream"
        /\ pc[r] = "done"
        /\ started[r] < starts[r]
        /\ response[r] = ServerError

\* the stored template of the assistant request r looked up
StoredTemplate(r) ==
    (CHOOSE a \in StoredAssistants :
        a.assistant_id = assistant[r].assistant_id).config

\* C14 (step part): no step changes the stored rows, nor a request's
\* payload, thread record, assistant record or config once it has them.
C14_Frame ==
    /\ threads' = threads
    /\ assistants' = assistants
    /\ \A r \in Reqs :
         /\ payload[r] # None => payload'[r] = payload[r]
         /\ thread[r] # None => thread'[r] = thread[r]
         /\ assistant[r] # None => assistant'[r] = assistant[r]
         /\ config[r] # None => config'[r] = config[r]

\* C14 (state part): the storage holds the rows it started with, every run
\* holds stored rows, and every run's config holds the stored template's
\* keys, its own override's keys and the identity keys, and nothing else.
C14_OwnOverrideOnly ==
    /\ threads = StoredThreads
    /\ assistants = StoredAssistants
    /\ \A r \in Reqs :
         /\ thread[r] # None => thread[r] \in StoredThreads
         /\ assistant[r] # None => assistant[r] \in StoredAssistants
         /\ \A c \in ConfigsOf(r) :
              LET ov == RequestConfigurable(payload[r])
                  tc == StoredTemplate(r).configurable
              IN  /\ DOMAIN c.configurable =
                        DOMAIN tc \cup DOMAIN ov \cup IdentityKeys
                  /\ \A k \in DOMAIN c.configurable \ (DOMAIN ov \cup IdentityKeys) :
                        c.configurable[k] = tc[k]

\* C14: resolving the effective config has no side effects: the stored
\* assistant config, the thread record and the request payload are unchanged
\* by the preparation, so runs on one assistant with different overrides see
\* their own override only and no key an earlier run injected.
C14_NoSideEffects == []C14_OwnOverrideOnly /\ [][C14_Frame]_vars

\* two runs on the same assistant were executed with different overrides,
\* one of which set a key the other run's config does not hold
C14_Witness ==
    \E r1, r2 \in Reqs :
        /\ r1 # r2
        /\ execs[r1] # <<>> /\ execs[r2] # <<>>
        /\ assistant[r1] = assistant[r2]
        /\ payload[r1].config = [configurable |-> ("system_message" :> "req")]
        /\ payload[r2].config =
              [configurable |-> ("user_id" :> "u2" @@ ToolsKey :> <<CI>>)]
        /\ config[r1].configurable[ToolsKey] = <<CI, RT, CI>>
        /\ config[r2].configurable["system_message"] = "sys"

\* C13 as stated: every feedback request to the registered route is
\* answered {status: ok}, whatever create_feedback did, a raised exception
\* included.
C13_AlwaysAcknowledged ==
    (tracing /\ fb_pc = "done") => fb_response = StatusOk

\* C13, amended: the feedback operation answers {status: ok} exactly when
\* create_feedback returned, whether the service recorded the feedback or
\* silently rejected it; when create_feedback raises the caller gets a
\* server error, and without tracing the route does not exist.
C13_AcknowledgedIfSubmitted ==
    /\ fb_pc # "done" => fb_response = None
    /\ (fb_pc = "done" /\ ~tracing) =>
          /\ fb_response = HTTPException(404, "Not Found")
          /\ fb_call = None /\ fb_delivery = "none"
    /\ (fb_pc = "done" /\ tracing) =>
          /\ fb_call = CreateFeedbackArgs(feedback_create_req)
          /\ fb_delivery \in {"recorded", "rejected"} => fb_response = StatusOk
          /\ fb_delivery = "raised" => fb_response = ServerError
          /\ fb_delivery # "none"

\* a feedback the service silently rejected was acknowledged
C13_Witness ==
    /\ tracing
    /\ fb_pc = "done"
    /\ fb_delivery = "rejected"
    /\ fb_response = StatusOk

\* C16 as stated (last part): at no reachable state is exactly one of the
\* two globals None.
C16_NeverExactlyOneNone == (get_pg_pool = None) <=> (get_langserve = None)

\* C16, amended: from the end of startup until shutdown begins both getters
\* return handles and the pool is open; before startup and after a normally
\* completed shutdown both return None; exactly one global is None only
\* after a startup that failed at creating the agent-runtime client, where
\* _pg_pool keeps the open pool and _langserve is None.
C16_HandlesReady ==
    /\ phase \in LifespanPhases
    /\ phase = "running" =>
          /\ get_pg_pool = Pool /\ get_langserve = LangServeClient
          /\ pool_state = "open" /\ client_state = "open"
    /\ phase \in {"init", "creating_pool", "stopped"} =>
          get_pg_pool = None /\ get_langserve = None
    /\ phase = "stopped" => pool_state = "closed" /\ client_state = "closed"
    /\ (get_pg_pool = None) # (get_langserve = None) =>
          /\ phase = "startup_failed"
          /\ get_pg_pool = Pool /\ pool_state = "open"
          /\ get_langserve = None /\ client_state = "none"
    /\ \A r \in Reqs :
          (seen[r] # None /\ seen[r].phase = "running") =>
              /\ seen[r].pool = Pool /\ seen[r].client = LangServeClient
              /\ seen[r].pool_state = "open"

\* a request got both handles, the pool open, while the application ran,
\* and the shutdown completed normally afterwards
C16_Witness ==
    /\ phase = "stopped"
    /\ \E r \in Reqs :
          /\ seen[r] # None
          /\ seen[r].phase = "running"
          /\ seen[r].pool = Pool

\* C17 (state part): the client is closed only after the pool; while a close
\* is awaited both globals still hold their handles; after a failed pool
\* close or an error of the application body the client is still open and
\* both globals hold their stale handles.
C17_PoolThenClient ==
    /\ client_state = "closed" => pool_state = "closed"
    /\ phase = "closing_pool" =>
          /\ get_pg_pool = Pool /\ get_langserve = LangServeClient
          /\ pool_state = "closing" /\ client_state = "open"
    /\ phase = "closing_client" =>
          /\ get_pg_pool = Pool /\ get_langserve = LangServeClient
          /\ pool_state = "closed" /\ client_state = "open"
    /\ phase \in {"pool_close_failed", "aborted"} =>
          /\ client_state = "open"
          /\ get_pg_pool = Pool /\ get_langserve = LangServeClient
    /\ phase = "client_close_failed" =>
          get_pg_pool = Pool /\ get_langserve = LangServeClient

\* C17 (step part): a step that resets a global resets both, and is taken
\* with the pool closed and leaves the client closed.
C17_ResetAfterBothClosed ==
    (get_pg_pool' # get_pg_pool \/ get_langserve' # get_langserve) =>
        \/ phase = "creating_pool"
        \/ /\ get_pg_pool' = None /\ get_langserve' = None
           /\ pool_state = "closed" /\ client_state' = "closed"

\* C17: on shutdown the pool is closed first, then the agent-runtime client,
\* and the globals are reset only after both closes completed; if closing
\* the pool fails or the application body raises, the client is never
\* closed and both globals keep their stale handles.
C17_ShutdownOrder == []C17_PoolThenClient /\ [][C17_ResetAfterBothClosed]_vars

\* a request in flight during shutdown got a non-null pool that was closing
\* or closed, and the pool's close then failed
C17_Witness ==
    /\ phase = "pool_close_failed"
    /\ \E r \in Reqs :
          /\ seen[r] # None
          /\ seen[r].pool = Pool
          /\ seen[r].pool_state \in {"closing", "closed"}

=============================================================================
